---- MODULE Spec2Model ----
(***************************************************************************)
(* A model of pyODM: the per-site signal pipeline of pyodm/sitedata.py     *)
(* (SiteData) and the multi-site aggregation of pyodm/modelling.py         *)
(* (AggregateModel).                                                       *)
(*                                                                         *)
(* Floating-point numbers are modelled as exact rationals extended with    *)
(* NaN and the two infinities (rounding is not modelled); a pandas null    *)
(* (None / NaN in a float column) is NaN.  Dates are day ordinals; a date  *)
(* string "YYYY-MM-DD" is the tuple <<YYYY, MM, DD>>.  A DataFrame is a     *)
(* sequence of row records.  scipy's LSQUnivariateSpline is outside the    *)
(* repository: its outcome (an exception, or a function of the day offset) *)
(* is drawn from the oracle variable scipy.                                *)
(***************************************************************************)
EXTENDS Integers, Sequences, FiniteSets, TLC

VARIABLES odm, site_data, weights, scipy, ret

vars == <<odm, site_data, weights, scipy, ret>>

-----------------------------------------------------------------------------
(* Bounds of the model.                                                    *)

\* longest ww_measure table of the gene-query specification
MaxRows == 2
\* samples per site of the ratio specification
MaxSamples == 2
\* last day (ordinal) a sample or a grid bound of the aggregate specification falls on
MaxDay == 3
\* last day (ordinal) of a grid bound of the date-grid specification
MaxGridDay == 30

\* the longest time in days between the first and the last sample of a series
MaxDuration == 21

-----------------------------------------------------------------------------
(* Floating-point values.                                                  *)

Abs(i) == IF i < 0 THEN -i ELSE i

Sgn(i) == IF i < 0 THEN -1 ELSE IF i > 0 THEN 1 ELSE 0

RECURSIVE GCD(_, _)
GCD(a, b) == IF b = 0 THEN a ELSE GCD(b, a % b)

\* the rational n/d (d # 0) in lowest terms
Rat(n, d) ==
    LET g == GCD(Abs(n), Abs(d))
        s == IF d < 0 THEN -1 ELSE 1
    IN  [k |-> "fin", n |-> s * (n \div g), d |-> Abs(d) \div g]

Fl(i) == Rat(i, 1)

NaN == [k |-> "nan", n |-> 0, d |-> 1]

PInf == [k |-> "inf", n |-> 1, d |-> 1]

NInf == [k |-> "inf", n |-> -1, d |-> 1]

SignedInf(s) == IF s < 0 THEN NInf ELSE PInf

isna(x) == x.k = "nan"

IsFinite(x) == x.k = "fin"

IsZero(x) == x.k \in {"fin", "sqrt"} /\ x.n = 0

\* x + y
FAdd(x, y) ==
    IF isna(x) \/ isna(y) THEN NaN
    ELSE IF x.k = "inf" /\ y.k = "inf" THEN (IF x.n = y.n THEN x ELSE NaN)
    ELSE IF x.k = "inf" THEN x
    ELSE IF y.k = "inf" THEN y
    ELSE Rat(x.n * y.d + y.n * x.d, x.d * y.d)

\* x * y
FMul(x, y) ==
    IF isna(x) \/ isna(y) THEN NaN
    ELSE IF x.k = "inf" \/ y.k = "inf"
         THEN (IF x.n = 0 \/ y.n = 0 THEN NaN ELSE SignedInf(Sgn(x.n) * Sgn(y.n)))
    ELSE Rat(x.n * y.n, x.d * y.d)

\* the largest r with r * r <= i
RECURSIVE ISqrtFrom(_, _)
ISqrtFrom(i, r) == IF (r + 1) * (r + 1) > i THEN r ELSE ISqrtFrom(i, r + 1)

ISqrt(i) == ISqrtFrom(i, 0)

IsSquare(i) == ISqrt(i) * ISqrt(i) = i

\* sign(s) * sqrt(|q|) for a finite rational q: a rational when q is a square of one,
\* else kept as the surd  [k |-> "sqrt"]  standing for sign(n) * sqrt(|n| / d)
SignedSqrt(s, q) ==
    IF IsSquare(Abs(q.n)) /\ IsSquare(q.d)
    THEN Rat(Sgn(s) * ISqrt(Abs(q.n)), ISqrt(q.d))
    ELSE [k |-> "sqrt", n |-> Sgn(s) * Abs(q.n), d |-> q.d]

\* x / y as IEEE division does it: x/0 is an infinity (NaN for 0/0), never an error;
\* y may be a surd (a standard deviation), x may not
FDiv(x, y) ==
    IF isna(x) \/ isna(y) THEN NaN
    ELSE IF x.k = "inf" THEN (IF y.k = "inf" THEN NaN
                              ELSE SignedInf(x.n * (IF y.n < 0 THEN -1 ELSE 1)))
    ELSE IF y.k = "inf" THEN Fl(0)
    ELSE IF y.n = 0 THEN (IF x.n = 0 THEN NaN ELSE SignedInf(x.n))
    ELSE IF y.k = "sqrt"
         THEN SignedSqrt(x.n * y.n, Rat(x.n * x.n * y.d, x.d * x.d * Abs(y.n)))
    ELSE Rat(x.n * y.d, x.d * y.n)

\* x < y (False when either is NaN)
FLt(x, y) ==
    IF isna(x) \/ isna(y) THEN FALSE
    ELSE IF x.k = "inf" THEN x.n < 0 /\ ~(y.k = "inf" /\ y.n < 0)
    ELSE IF y.k = "inf" THEN y.n > 0
    ELSE x.n * y.d < y.n * x.d

-----------------------------------------------------------------------------
(* Sequences as tables.                                                    *)

RECURSIVE SeqsUpTo(_, _)
SeqsUpTo(S, n) ==
    IF n = 0 THEN {<<>>}
    ELSE LET shorter == SeqsUpTo(S, n - 1)
         IN  shorter \cup {Append(t, r) : t \in {u \in shorter : Len(u) = n - 1}, r \in S}

RECURSIVE Concat(_)
Concat(ss) == IF ss = <<>> THEN <<>> ELSE Head(ss) \o Concat(Tail(ss))

RECURSIVE FSum(_)
FSum(xs) == IF xs = <<>> THEN Fl(0) ELSE FAdd(Head(xs), FSum(Tail(xs)))

SetMin(S) == CHOOSE x \in S : \A y \in S : x <= y

SetMax(S) == CHOOSE x \in S : \A y \in S : x >= y

\* the elements of a set of integers in ascending order
RECURSIVE SortedSeq(_)
SortedSeq(S) == IF S = {} THEN <<>> ELSE <<SetMin(S)>> \o SortedSeq(S \ {SetMin(S)})

\* a frame built row by row, as the sequence of its rows
Frame(rows) == SelectSeq(rows, LAMBDA r : TRUE)

Column(t, f) == Frame([i \in 1..Len(t) |-> t[i][f]])

Range(s) == {s[i] : i \in 1..Len(s)}

-----------------------------------------------------------------------------
(* Dates.                                                                  *)

DaysInMonth == <<31, 28, 31, 30, 31, 30, 31, 31, 30, 31, 30, 31>>

RECURSIVE DaysBeforeMonth(_)
DaysBeforeMonth(m) == IF m = 1 THEN 0 ELSE DaysBeforeMonth(m - 1) + DaysInMonth[m - 1]

\* the date strings of one (non-leap) year, <<YYYY, MM, DD>>
DateStrings == UNION {{<<2021, m, d>> : d \in 1..DaysInMonth[m]} : m \in 1..12}

\* datetime.strptime(date, "%Y-%m-%d").date(), as the day ordinal counted from <<2021, 1, 1>>
str_to_datetime(date) == DaysBeforeMonth(date[2]) + date[3] - 1

\* the date strings whose date is one of the days 0..n
DateStringsUpTo(n) == {s \in DateStrings : str_to_datetime(s) <= n}

\* (date_2 - date_1).days
delta_days(date_2, date_1) == date_2 - date_1

\* a timestamp; NaT is the null timestamp of an empty dateTimeEnd cell
Timestamp(date, hour) == [date |-> date, hour |-> hour]

NaT == [date |-> -1, hour |-> 0]

-----------------------------------------------------------------------------
(* The ODM tables and SiteData construction.                               *)

Sites == {"A", "B"}

SampleRow(id, site, dateTime, dateTimeEnd) ==
    [sampleID |-> id, siteID |-> site, dateTime |-> dateTime, dateTimeEnd |-> dateTimeEnd]

MeasureRow(id, type, unit, value) ==
    [sampleID |-> id, type |-> type, unit |-> unit, value |-> value]

\* SiteData.__init__: the site's samples with sampleTime and sampleDate added
site_sample_data(data, site_id) ==
    LET rows == SelectSeq(data.sample, LAMBDA r : r.siteID = site_id)
        sampleTime(r) == IF r.dateTimeEnd = NaT THEN r.dateTime ELSE r.dateTimeEnd
    IN  Frame([i \in 1..Len(rows) |->
            [sampleID |-> rows[i].sampleID, siteID |-> rows[i].siteID,
             dateTime |-> rows[i].dateTime, dateTimeEnd |-> rows[i].dateTimeEnd,
             sampleTime |-> sampleTime(rows[i]),
             sampleDate |-> sampleTime(rows[i]).date]])

\* SiteData.__init__: the measurements of the site's samples, left-merged with
\* sample_data[["sampleID", "sampleDate"]] (one output row per matching sample row)
site_measure_data(data, sample_data) ==
    LET ids == {sample_data[i].sampleID : i \in 1..Len(sample_data)}
        rows == SelectSeq(data.ww_measure, LAMBDA r : r.sampleID \in ids)
        matches(r) == SelectSeq(sample_data, LAMBDA s : s.sampleID = r.sampleID)
        merged(r) == [j \in 1..Len(matches(r)) |->
                        [sampleID |-> r.sampleID, type |-> r.type, unit |-> r.unit,
                         value |-> r.value, sampleDate |-> matches(r)[j].sampleDate]]
    IN  Concat([i \in 1..Len(rows) |-> merged(rows[i])])

SiteData(data, site_id) ==
    LET sample_data == site_sample_data(data, site_id)
    IN  [sample_data |-> sample_data,
         measure_data |-> site_measure_data(data, sample_data)]

-----------------------------------------------------------------------------
(* SiteData.get_data_by_gene.                                              *)

Ok(rows) == [status |-> "ok", rows |-> rows]

Raise(error) == [status |-> error, rows |-> <<>>]

\* the value column after the unit conversion of line 76 / line 80
ConvertUnits(rows, from_unit, factor) ==
    Frame([i \in 1..Len(rows) |->
        IF rows[i].unit = from_unit
        THEN [rows[i] EXCEPT !.value = FMul(rows[i].value, factor)]
        ELSE rows[i]])

\* the replacement with "<=" in the place of "<"
ReplaceAtOrBelowLod(rows, lod, replacement) ==
    Frame([i \in 1..Len(rows) |->
        IF ~FLt(lod, rows[i].value)
        THEN [rows[i] EXCEPT !.value = replacement]
        ELSE rows[i]])

\* the value column after the replacement of line 78 / line 82
ReplaceBelowLod(rows, lod, replacement) ==
    Frame([i \in 1..Len(rows) |->
        IF FLt(rows[i].value, lod)
        THEN [rows[i] EXCEPT !.value = replacement]
        ELSE rows[i]])

\* the aggregation with "last" in the place of "first"
GroupMeanLastDate(rows) ==
    LET ids == SortedSeq({rows[i].sampleID : i \in 1..Len(rows)})
        group(id) == SelectSeq(rows, LAMBDA r : r.sampleID = id)
    IN  Frame([j \in 1..Len(ids) |->
            [index |-> ids[j],
             sampleDate |-> group(ids[j])[Len(group(ids[j]))].sampleDate,
             value |-> FDiv(FSum(Column(group(ids[j]), "value")), Fl(Len(group(ids[j]))))]])

\* groupby(["sampleID"]).agg({"value" : "mean", "sampleDate" : "first"}): one row per
\* sampleID in ascending order, indexed by the sampleID
GroupMean(rows) ==
    LET ids == SortedSeq({rows[i].sampleID : i \in 1..Len(rows)})
        group(id) == SelectSeq(rows, LAMBDA r : r.sampleID = id)
    IN  Frame([j \in 1..Len(ids) |->
            [index |-> ids[j],
             sampleDate |-> group(ids[j])[1].sampleDate,
             value |-> FDiv(FSum(Column(group(ids[j]), "value")), Fl(Len(group(ids[j]))))]])

\* the rows selected by gene, blanks dropped, each indexed by its row label
GeneRows(sd, gene) ==
    LET labelled == Frame([i \in 1..Len(sd.measure_data) |->
                        [index |-> i - 1,
                         sampleID |-> sd.measure_data[i].sampleID,
                         type |-> sd.measure_data[i].type,
                         unit |-> sd.measure_data[i].unit,
                         value |-> sd.measure_data[i].value,
                         sampleDate |-> sd.measure_data[i].sampleDate]])
        selected == SelectSeq(labelled, LAMBDA r : r.type = gene)
    IN  SelectSeq(selected, LAMBDA r : ~isna(r.value))

\* the conversion with the two factors exchanged
ConvertedRowsSwapped(rows, units) ==
    IF units = "gcL"
    THEN ConvertUnits(rows, "gcMl", Rat(1, 1000))
    ELSE ConvertUnits(rows, "gcL", Fl(1000))

\* the table of lines 75-82 for a supported unit
ConvertedRows(rows, units) ==
    IF units = "gcL"
    THEN ConvertUnits(rows, "gcMl", Fl(1000))
    ELSE ConvertUnits(rows, "gcL", Rat(1, 1000))

\* the table left as it is after the conversion, nothing replaced
UnflooredRows(rows, units) == rows

FlooredRows(rows, units) ==
    IF units = "gcL"
    THEN ReplaceBelowLod(rows, Fl(300), Fl(150))
    ELSE ReplaceBelowLod(rows, Rat(3, 10), Rat(15, 100))

\* the returned frame: measure_data[["sampleDate", "value"]] under its index
Returned(rows) ==
    Frame([i \in 1..Len(rows) |->
        [index |-> rows[i].index, sampleDate |-> rows[i].sampleDate, value |-> rows[i].value]])

\* lines 78-91 on the converted frame; out.converted is the local frame as it stands
\* after line 76 / line 80, before the replacement of the values below the limit
gene_frame(converted, units, mean) ==
    [status |-> "ok",
     rows |-> IF mean
              THEN GroupMean(FlooredRows(converted, units))
              ELSE Returned(FlooredRows(converted, units)),
     converted |-> converted]

\* the query without the else branch: any other unit is taken for gcMl
get_data_by_gene_no_raise(sd, gene, units, mean) ==
    gene_frame(ConvertedRows(GeneRows(sd, gene), units), units, mean)

get_data_by_gene(sd, gene, units, mean) ==
    IF units \notin {"gcL", "gcMl"}
    THEN [status |-> "ValueError", rows |-> <<>>, converted |-> <<>>]
    ELSE gene_frame(ConvertedRows(GeneRows(sd, gene), units), units, mean)

-----------------------------------------------------------------------------
(* SiteData.get_normalized_data .. SiteData.get_spline_model.              *)

\* data_1.merge(data_2, how="left", on="sampleID"): a row of data_1 without a match
\* is kept, with a null value_y
LeftMerge(data_1, data_2) ==
    LET matches(r) == SelectSeq(data_2, LAMBDA q : q.index = r.index)
        merged(r) == IF matches(r) = <<>>
                     THEN <<[index |-> r.index, sampleDate_x |-> r.sampleDate, value_x |-> r.value,
                             sampleDate_y |-> r.sampleDate, value_y |-> NaN]>>
                     ELSE [j \in 1..Len(matches(r)) |->
                             [index |-> r.index, sampleDate_x |-> r.sampleDate, value_x |-> r.value,
                              sampleDate_y |-> matches(r)[j].sampleDate,
                              value_y |-> matches(r)[j].value]]
    IN  Concat([i \in 1..Len(data_1) |-> merged(data_1[i])])

\* data_1.merge(data_2, how="inner", on="sampleID"), sampleID being the index of both
\* frames: the rows of data_1 in order, each paired with every match in data_2
InnerMerge(data_1, data_2) ==
    LET matches(r) == SelectSeq(data_2, LAMBDA q : q.index = r.index)
        merged(r) == [j \in 1..Len(matches(r)) |->
                        [index |-> r.index, sampleDate_x |-> r.sampleDate, value_x |-> r.value,
                         sampleDate_y |-> matches(r)[j].sampleDate,
                         value_y |-> matches(r)[j].value]]
    IN  Concat([i \in 1..Len(data_1) |-> merged(data_1[i])])

\* lines 99-105 on the two gene frames
normalize(data_1, data_2) ==
    IF data_1.status # "ok" THEN Raise(data_1.status)
    ELSE IF data_2.status # "ok" THEN Raise(data_2.status)
    ELSE LET measure_data == InnerMerge(data_1.rows, data_2.rows)
         IN  Ok(Frame([i \in 1..Len(measure_data) |->
                    [index |-> measure_data[i].index,
                     sampleDate |-> measure_data[i].sampleDate_x,
                     value |-> FDiv(measure_data[i].value_x, measure_data[i].value_y)]]))

get_normalized_data(sd, gene_1, gene_2, units) ==
    normalize(get_data_by_gene(sd, gene_1, units, TRUE),
              get_data_by_gene(sd, gene_2, units, TRUE))

FSub(x, y) == FAdd(x, FMul(Fl(-1), y))

\* the mean of the squared deviations from the mean, divided by Len(xs) - ddof
Variance(xs, ddof) ==
    LET mean == FDiv(FSum(xs), Fl(Len(xs)))
        sq == Frame([i \in 1..Len(xs) |-> FMul(FSub(xs[i], mean), FSub(xs[i], mean))])
    IN  FDiv(FSum(sq), Fl(Len(xs) - ddof))

\* the sample standard deviation (ddof = 1) in the place of the population one
SampleStd(xs) ==
    LET var == Variance(xs, 1)
    IN  IF xs = <<>> \/ ~IsFinite(var) THEN NaN ELSE SignedSqrt(1, var)

\* np.std(xs): the population standard deviation (ddof = 0); NaN for no values
Std(xs) ==
    LET var == Variance(xs, 0)
    IN  IF xs = <<>> \/ ~IsFinite(var) THEN NaN ELSE SignedSqrt(1, var)

\* value / std over a value column
DivideBy(rows, std) ==
    Frame([i \in 1..Len(rows) |-> [rows[i] EXCEPT !.value = FDiv(@, std)]])

\* lines 112-116 on the normalized frame; out.normalized is that frame (line 110)
standardize(normalized) ==
    IF normalized.status # "ok"
    THEN [status |-> normalized.status, rows |-> <<>>, normalized |-> <<>>]
    ELSE [status |-> "ok",
          rows |-> DivideBy(normalized.rows, Std(Column(normalized.rows, "value"))),
          normalized |-> normalized.rows]

get_standardized_data(sd, gene_1, gene_2, units) ==
    standardize(get_normalized_data(sd, gene_1, gene_2, units))

\* np.log(x): -inf at 0 and NaN below 0 (a warning, no exception); the logarithm of a
\* positive number is kept as the number it was taken of
FLog(x) ==
    IF isna(x) THEN NaN
    ELSE IF x.k = "inf" THEN (IF x.n > 0 THEN PInf ELSE NaN)
    ELSE IF x.n = 0 THEN NInf
    ELSE IF x.n < 0 THEN NaN
    ELSE [k |-> IF x.k = "fin" THEN "log" ELSE "logsqrt", n |-> x.n, d |-> x.d]

\* lines 123-127 on the standardized frame
log_transform(standardized) ==
    IF standardized.status # "ok" THEN Raise(standardized.status)
    ELSE Ok(Frame([i \in 1..Len(standardized.rows) |->
                [standardized.rows[i] EXCEPT !.value = FLog(@)]]))

get_log_standardized_data(sd, gene_1, gene_2, units) ==
    log_transform(get_standardized_data(sd, gene_1, gene_2, units))

\* the range with the stop value included
RECURSIVE arange_closed(_, _, _)
arange_closed(start, stop, step) ==
    IF start > stop THEN <<>> ELSE <<start>> \o arange_closed(start + step, stop, step)

\* np.arange(10, duration, 10)
RECURSIVE arange(_, _, _)
arange(start, stop, step) ==
    IF start >= stop THEN <<>> ELSE <<start>> \o arange(start + step, stop, step)

\* the offsets in ascending order (sort_values on the converted sampleDate)
RECURSIVE SortValues(_)
SortValues(xs) ==
    IF xs = <<>> THEN <<>>
    ELSE LET m == SetMin(Range(xs))
         IN  SelectSeq(xs, LAMBDA x : x = m) \o SortValues(SelectSeq(xs, LAMBDA x : x # m))

\* the sampleDate column converted to offsets from start_date and sorted
Offsets(rows, start_date) ==
    SortValues(Frame([i \in 1..Len(rows) |-> delta_days(rows[i].sampleDate, start_date)]))

\* lines 134-149 for a frame with rows; the exception of the fit is passed on
spline_of(rows, start_date, end_date, fit) ==
    IF ~fit.ok
    THEN [status |-> "FitError"]
    ELSE [status |-> "ok", start_date |-> start_date, end_date |-> end_date,
          knots |-> arange(10, delta_days(end_date, start_date), 10),
          x |-> Offsets(rows, start_date), spline |-> fit]

\* lines 134-152 on the log-transformed frame.  The minimum of an empty sampleDate
\* column is NaN, which has no .days
fit_spline(measure_data, fit) ==
    IF measure_data.status # "ok"
    THEN [status |-> measure_data.status]
    ELSE IF measure_data.rows = <<>>
    THEN [status |-> "AttributeError"]
    ELSE spline_of(measure_data.rows,
                   SetMin(Range(Column(measure_data.rows, "sampleDate"))),
                   SetMax(Range(Column(measure_data.rows, "sampleDate"))), fit)

\* the model returned is spline_model(x, start_date, spline), spline being the fitted
\* function the oracle fit gives
get_spline_model(sd, gene_1, gene_2, units, fit) ==
    fit_spline(get_log_standardized_data(sd, gene_1, gene_2, units), fit)

\* spline_model(date, start_date, func): func(day), the fitted function being
\* day |-> a + b * day for the coefficients the oracle gave
spline_model(date, start_date, func) ==
    LET day == delta_days(date, start_date)
    IN  Fl(func.a + func.b * day)

-----------------------------------------------------------------------------
(* AggregateModel.                                                         *)

\* the while loop of lines 65-67
RECURSIVE date_loop(_, _)
date_loop(dates, end_date) ==
    IF dates[Len(dates)] <= end_date
    THEN date_loop(Append(dates, dates[Len(dates)] + 1), end_date)
    ELSE dates

get_date_list(start_date, end_date) ==
    date_loop(<<str_to_datetime(start_date)>>, str_to_datetime(end_date))

\* the frame with the dates of the first and the last sample masked as well
site_spline_frame_at_limits(model, dates, min_date, max_date) ==
    Frame([i \in 1..Len(dates) |->
        [sampleDate |-> dates[i],
         value |-> IF dates[i] <= min_date \/ dates[i] >= max_date
                   THEN NaN
                   ELSE spline_model(dates[i], model.start_date, model.spline)]])

\* lines 102-116: the model at every date, then None for the dates out of range
site_spline_frame(model, dates, min_date, max_date) ==
    Frame([i \in 1..Len(dates) |->
        [sampleDate |-> dates[i],
         value |-> IF dates[i] < min_date \/ dates[i] > max_date
                   THEN NaN
                   ELSE spline_model(dates[i], model.start_date, model.spline)]])

\* lines 100-116 once the model is there
site_spline_of(model, sd, start_date, end_date) ==
    IF model.status # "ok"
    THEN Raise(model.status)
    ELSE Ok(site_spline_frame(model, get_date_list(start_date, end_date),
                              SetMin(Range(Column(sd.sample_data, "sampleDate"))),
                              SetMax(Range(Column(sd.sample_data, "sampleDate")))))

\* data is AggregateModel._data (the SiteData of every site), fits the outcome of
\* the spline fit of every site
get_site_spline(data, fits, site, gene_1, gene_2, start_date, end_date, units) ==
    site_spline_of(get_spline_model(data[site], gene_1, gene_2, units, fits[site]),
                   data[site], start_date, end_date)

\* the value of a site's frame at a date of the merged frame (how="left": null when
\* the site's frame has no such date)
ValueAt(frame, date) ==
    LET matches == SelectSeq(frame, LAMBDA r : r.sampleDate = date)
    IN  IF matches = <<>> THEN NaN ELSE matches[1].value

\* lines 146-152 on the frames of the sites: the first frame, left-merged on
\* sampleDate with each of the others; a row holds value[site] for value_<site>.
\* The first exception in the order of the sites is passed on
merge_splines(sites, frames) ==
    IF \E i \in 1..Len(sites) : frames[i].status # "ok"
    THEN Raise(frames[SetMin({i \in 1..Len(sites) : frames[i].status # "ok"})].status)
    ELSE Ok(Frame([k \in 1..Len(frames[1].rows) |->
                [sampleDate |-> frames[1].rows[k].sampleDate,
                 value |-> [i \in 1..Len(sites) |->
                              ValueAt(frames[i].rows, frames[1].rows[k].sampleDate)]]]))

get_multisite_splines(data, fits, sites, gene_1, gene_2, start_date, end_date, units) ==
    merge_splines(sites,
        Frame([i \in 1..Len(sites) |->
            get_site_spline(data, fits, sites[i], gene_1, gene_2, start_date, end_date, units)]))

\* the sum of a row over columns with a null making the sum null
SumWithNa(xs) == FSum(xs)

\* the sum of a row over columns, nulls skipped (DataFrame.sum(axis=1))
SumSkipNa(xs) == FSum(Frame([i \in 1..Len(xs) |-> IF isna(xs[i]) THEN Fl(0) ELSE xs[i]]))

\* the weight columns without line 188: a site's weight counts at every date
weight_columns_unmasked(values, sites, w) ==
    Frame([i \in 1..Len(sites) |-> w[sites[i]]])

\* lines 185-188 on one row: the weighted value columns
value_columns(values, sites, w) ==
    Frame([i \in 1..Len(sites) |-> FMul(values[i], w[sites[i]])])

\* lines 187-188 on one row: the weight columns, zero where the weighted value is null
weight_columns(values, sites, w) ==
    Frame([i \in 1..Len(sites) |->
        IF isna(FMul(values[i], w[sites[i]])) THEN Fl(0) ELSE w[sites[i]]])

\* lines 180-190 on the merged frame, its value columns being float columns
aggregate(splines, sites, w) ==
    IF splines.status # "ok"
    THEN Raise(splines.status)
    ELSE Ok(Frame([k \in 1..Len(splines.rows) |->
                [sampleDate |-> splines.rows[k].sampleDate,
                 value |-> FDiv(SumSkipNa(value_columns(splines.rows[k].value, sites, w)),
                                SumSkipNa(weight_columns(splines.rows[k].value, sites, w)))]]))

get_aggregate_model(data, fits, w, sites, gene_1, gene_2, start_date, end_date, units) ==
    aggregate(get_multisite_splines(data, fits, sites, gene_1, gene_2, start_date, end_date, units),
              sites, w)

-----------------------------------------------------------------------------
(* The calls and their inputs.                                             *)

Genes == {"covN1", "nPMMoV"}

\* the unit arguments: the two supported ones and an unsupported one
UnitArgs == {"gcL", "gcMl", "gcmL"}

NoCall == [op |-> "none"]

\* the query working on measure_data itself, without the copy of line 66
GetDataByGeneInPlace(site, gene, units, mean) ==
    /\ ret' = [op |-> "get_data_by_gene", site |-> site, gene |-> gene, units |-> units,
               mean |-> mean, out |-> get_data_by_gene(site_data[site], gene, units, mean)]
    /\ site_data' = [site_data EXCEPT ![site].measure_data =
                        IF units \in {"gcL", "gcMl"}
                        THEN FlooredRows(ConvertedRows(@, units), units)
                        ELSE @]
    /\ UNCHANGED <<odm, weights, scipy>>

GetDataByGene(site, gene, units, mean) ==
    /\ ret' = [op |-> "get_data_by_gene", site |-> site, gene |-> gene, units |-> units,
               mean |-> mean, out |-> get_data_by_gene(site_data[site], gene, units, mean)]
    /\ UNCHANGED <<odm, site_data, weights, scipy>>

GetNormalizedData(site, gene_1, gene_2, units) ==
    /\ ret' = [op |-> "get_normalized_data", site |-> site, gene_1 |-> gene_1,
               gene_2 |-> gene_2, units |-> units,
               out |-> get_normalized_data(site_data[site], gene_1, gene_2, units)]
    /\ UNCHANGED <<odm, site_data, weights, scipy>>

GetStandardizedData(site, gene_1, gene_2, units) ==
    /\ ret' = [op |-> "get_standardized_data", site |-> site, gene_1 |-> gene_1,
               gene_2 |-> gene_2, units |-> units,
               out |-> get_standardized_data(site_data[site], gene_1, gene_2, units)]
    /\ UNCHANGED <<odm, site_data, weights, scipy>>

GetLogStandardizedData(site, gene_1, gene_2, units) ==
    /\ ret' = [op |-> "get_log_standardized_data", site |-> site, gene_1 |-> gene_1,
               gene_2 |-> gene_2, units |-> units,
               out |-> get_log_standardized_data(site_data[site], gene_1, gene_2, units)]
    /\ UNCHANGED <<odm, site_data, weights, scipy>>

GetSplineModel(site, gene_1, gene_2, units) ==
    /\ ret' = [op |-> "get_spline_model", site |-> site, gene_1 |-> gene_1,
               gene_2 |-> gene_2, units |-> units,
               out |-> get_spline_model(site_data[site], gene_1, gene_2, units, scipy[site])]
    /\ UNCHANGED <<odm, site_data, weights, scipy>>

GetDateList(start_date, end_date) ==
    /\ ret' = [op |-> "get_date_list", start_date |-> start_date, end_date |-> end_date,
               out |-> get_date_list(start_date, end_date)]
    /\ UNCHANGED <<odm, site_data, weights, scipy>>

GetSiteSpline(site, gene_1, gene_2, start_date, end_date, units) ==
    /\ ret' = [op |-> "get_site_spline", site |-> site, gene_1 |-> gene_1, gene_2 |-> gene_2,
               start_date |-> start_date, end_date |-> end_date, units |-> units,
               out |-> get_site_spline(site_data, scipy, site, gene_1, gene_2,
                                       start_date, end_date, units)]
    /\ UNCHANGED <<odm, site_data, weights, scipy>>

GetAggregateModel(sites, gene_1, gene_2, start_date, end_date, units) ==
    /\ ret' = [op |-> "get_aggregate_model", sites |-> sites, gene_1 |-> gene_1,
               gene_2 |-> gene_2, start_date |-> start_date, end_date |-> end_date,
               units |-> units,
               out |-> get_aggregate_model(site_data, scipy, weights, sites, gene_1, gene_2,
                                           start_date, end_date, units)]
    /\ UNCHANGED <<odm, site_data, weights, scipy>>

-----------------------------------------------------------------------------
(* The gene-query specification: any ww_measure table of at most MaxRows   *)
(* rows over two samples, two genes and both units, with values below, at  *)
(* and above the detection limit and blanks; the sample table lists the    *)
(* samples once, or one of them twice, or one of them under the other site.*)

GeneValues == {<<"gcL", NaN>>, <<"gcL", Fl(300)>>, <<"gcMl", Rat(1, 5)>>, <<"gcMl", Fl(2)>>}

GeneMeasureRows == {MeasureRow(id, g, uv[1], uv[2]) : id \in 1..2, g \in Genes, uv \in GeneValues}

GeneSampleTables ==
    { <<SampleRow(1, "A", Timestamp(0, 9), NaT), SampleRow(2, "A", Timestamp(1, 9), Timestamp(2, 9))>>,
      <<SampleRow(1, "A", Timestamp(0, 9), NaT), SampleRow(2, "A", Timestamp(1, 9), NaT),
        SampleRow(1, "A", Timestamp(3, 9), NaT)>>,
      <<SampleRow(2, "B", Timestamp(0, 9), NaT), SampleRow(1, "A", Timestamp(1, 23), NaT)>> }

NoWeights == [s \in Sites |-> Fl(1)]

NoScipy == [s \in Sites |-> [ok |-> FALSE, a |-> 0, b |-> 0]]

InitGene ==
    /\ odm \in {[sample |-> st, ww_measure |-> mt] :
                    st \in GeneSampleTables, mt \in SeqsUpTo(GeneMeasureRows, MaxRows)}
    /\ site_data = [s \in Sites |-> SiteData(odm, s)]
    /\ weights = NoWeights
    /\ scipy = NoScipy
    /\ ret = NoCall

NextGene ==
    \E gene \in Genes, units \in UnitArgs, mean \in BOOLEAN :
        GetDataByGene("A", gene, units, mean)

SpecGene == InitGene /\ [][NextGene]_vars

-----------------------------------------------------------------------------
(* The ratio specification: site A has the samples 1..MaxSamples, and     *)
(* ww_measure holds for each of them one of six patterns of rows: none, a  *)
(* reading of one gene only, readings of both genes (ratio 1 or 2, in one  *)
(* unit or in both), or a blank next to a reading below the detection      *)
(* limit; every stage of the pipeline is queried.                          *)

RatioPatterns ==
    { [covN1 |-> <<>>, nPMMoV |-> <<>>],
      [covN1 |-> <<<<"gcL", Fl(300)>>>>, nPMMoV |-> <<>>],
      [covN1 |-> <<>>, nPMMoV |-> <<<<"gcL", Fl(300)>>>>],
      [covN1 |-> <<<<"gcL", Fl(300)>>>>, nPMMoV |-> <<<<"gcMl", Rat(3, 10)>>>>],
      [covN1 |-> <<<<"gcL", Fl(600)>>>>, nPMMoV |-> <<<<"gcL", Fl(300)>>>>],
      [covN1 |-> <<<<"gcMl", Rat(1, 5)>>, <<"gcL", NaN>>>>, nPMMoV |-> <<<<"gcL", Fl(300)>>>>] }

\* the rows of sample id under a pattern: its covN1 rows, then its nPMMoV rows
PatternRows(id, pattern) ==
    [j \in 1..Len(pattern.covN1) |->
        MeasureRow(id, "covN1", pattern.covN1[j][1], pattern.covN1[j][2])]
    \o [j \in 1..Len(pattern.nPMMoV) |->
        MeasureRow(id, "nPMMoV", pattern.nPMMoV[j][1], pattern.nPMMoV[j][2])]

RatioMeasureTables ==
    {Concat([id \in 1..MaxSamples |-> PatternRows(id, c[id])]) :
        c \in [1..MaxSamples -> RatioPatterns]}

\* sample k is taken on day 2(k-1); the even ones are composites ending a day later
RatioSampleTable ==
    [k \in 1..MaxSamples |->
        SampleRow(k, "A", Timestamp(2 * (k - 1), 9),
                  IF k % 2 = 0 THEN Timestamp(2 * k - 1, 9) ELSE NaT)]

\* the fit of either site succeeds, with different coefficients
FitsOk == [s \in Sites |-> [ok |-> TRUE, a |-> (IF s = "A" THEN 1 ELSE 6), b |-> (IF s = "A" THEN 1 ELSE -2)]]

InitRatio ==
    /\ odm \in {[sample |-> RatioSampleTable, ww_measure |-> mt] : mt \in RatioMeasureTables}
    /\ site_data = [s \in Sites |-> SiteData(odm, s)]
    /\ weights = NoWeights
    /\ scipy = FitsOk
    /\ ret = NoCall

GenePairs == {<<"covN1", "nPMMoV">>, <<"nPMMoV", "covN1">>}

NextRatio ==
    \/ \E gene \in Genes, units \in UnitArgs : GetDataByGene("A", gene, units, TRUE)
    \/ \E pair \in GenePairs, units \in UnitArgs : GetNormalizedData("A", pair[1], pair[2], units)
    \/ \E pair \in GenePairs, units \in UnitArgs : GetStandardizedData("A", pair[1], pair[2], units)
    \/ \E pair \in GenePairs, units \in UnitArgs : GetLogStandardizedData("A", pair[1], pair[2], units)
    \/ \E pair \in GenePairs, units \in UnitArgs : GetSplineModel("A", pair[1], pair[2], units)

SpecRatio == InitRatio /\ [][NextRatio]_vars

-----------------------------------------------------------------------------
(* The date-grid specification: get_date_list between any two dates of the *)
(* first MaxGridDay + 1 days of the year.                                  *)

InitDates ==
    /\ odm = [sample |-> <<>>, ww_measure |-> <<>>]
    /\ site_data = [s \in Sites |-> SiteData(odm, s)]
    /\ weights = NoWeights
    /\ scipy = NoScipy
    /\ ret = NoCall

NextDates ==
    \E start_date \in DateStringsUpTo(MaxGridDay), end_date \in DateStringsUpTo(MaxGridDay) :
        GetDateList(start_date, end_date)

SpecDates == InitDates /\ [][NextDates]_vars

-----------------------------------------------------------------------------
(* The aggregate specification: the sites A and B have two samples each,   *)
(* with readings of both genes (ratio 1 on the first, 2 on the second);    *)
(* those of A are taken on any two days lo <= hi of 0..MaxDay, those of B  *)
(* on any two days in a row; a weight is zero or positive; the fit of A    *)
(* may fail.  One query is made on the model: the queries leave everything *)
(* but the returned value unchanged and do not read it, so a query made    *)
(* after another has the outcome it has when made first.                   *)

\* the samples first and first + 1 of a site, taken on the days lo and hi
AggSamples(site, first, lo, hi) ==
    <<SampleRow(first, site, Timestamp(lo, 9), NaT),
      SampleRow(first + 1, site, Timestamp(hi - 1, 9), Timestamp(hi, 9))>>

AggMeasures(first) ==
    <<MeasureRow(first, "covN1", "gcL", Fl(300)), MeasureRow(first, "nPMMoV", "gcL", Fl(300)),
      MeasureRow(first + 1, "covN1", "gcL", Fl(600)), MeasureRow(first + 1, "nPMMoV", "gcL", Fl(300))>>

AggTables ==
    {[sample |-> AggSamples("A", 1, a[1], a[2]) \o AggSamples("B", 3, b[1], b[2]),
      ww_measure |-> AggMeasures(1) \o AggMeasures(3)] :
        a \in {r \in (0..MaxDay) \X (0..MaxDay) : r[1] <= r[2]},
        b \in {r \in (0..MaxDay) \X (0..MaxDay) : r[2] = r[1] + 1}}

AggWeights == {[A |-> a, B |-> b] : a \in {Fl(0), Fl(2)}, b \in {Fl(0), Fl(1)}}

AggFits == {FitsOk, [FitsOk EXCEPT !["A"] = [ok |-> FALSE, a |-> 0, b |-> 0]]}

SiteLists == {<<"A">>, <<"B">>, <<"A", "B">>, <<"B", "A">>}

InitAgg ==
    /\ odm \in AggTables
    /\ site_data = [s \in Sites |-> SiteData(odm, s)]
    /\ weights \in AggWeights
    /\ scipy \in AggFits
    /\ ret = NoCall

NextAgg ==
    /\ ret = NoCall
    /\ \E start_date \in DateStringsUpTo(MaxDay), end_date \in DateStringsUpTo(MaxDay) :
          \/ \E site \in Sites :
                GetSiteSpline(site, "covN1", "nPMMoV", start_date, end_date, "gcL")
          \/ \E sites \in SiteLists :
                GetAggregateModel(sites, "covN1", "nPMMoV", start_date, end_date, "gcL")

SpecAgg == InitAgg /\ [][NextAgg]_vars

-----------------------------------------------------------------------------
(* Claims about get_data_by_gene.                                          *)

\* the last call was get_data_by_gene and it returned
GeneCallOk == ret.op = "get_data_by_gene" /\ ret.out.status = "ok"

\* the non-blank rows of the queried gene, as stored in the site's measure_data
SourceRows == GeneRows(site_data[ret.site], ret.gene)

\* C5 as the claim states it: a row recorded in gcL is multiplied by 1000 for the
\* target gcMl, a row recorded in gcMl is divided by 1000 for the target gcL, and a
\* row recorded in the target unit keeps its value (before the replacement)
C5_AsClaimed ==
    GeneCallOk =>
        \A i \in 1..Len(SourceRows) :
            LET r == SourceRows[i]
                v == ret.out.converted[i].value
            IN  /\ (r.unit = "gcL" /\ ret.units = "gcMl") => v = FMul(r.value, Fl(1000))
                /\ (r.unit = "gcMl" /\ ret.units = "gcL") => v = FDiv(r.value, Fl(1000))
                /\ r.unit = ret.units => v = r.value

\* C5 amended: before the replacement, a row recorded in gcMl is multiplied by 1000
\* for the target gcL, a row recorded in gcL is divided by 1000 for the target gcMl,
\* and a row recorded in the target unit keeps its value
C5_Conversion ==
    GeneCallOk =>
        /\ Len(ret.out.converted) = Len(SourceRows)
        /\ \A i \in 1..Len(SourceRows) :
            LET r == SourceRows[i]
                v == ret.out.converted[i].value
            IN  /\ (r.unit = "gcMl" /\ ret.units = "gcL") => v = FMul(r.value, Fl(1000))
                /\ (r.unit = "gcL" /\ ret.units = "gcMl") => v = FDiv(r.value, Fl(1000))
                /\ r.unit = ret.units => v = r.value

\* a query that converted a row in each direction's unit and kept one in the target unit
C5_Witness ==
    /\ GeneCallOk
    /\ \E i \in 1..Len(SourceRows) :
          SourceRows[i].unit # ret.units /\ ret.out.converted[i].value # SourceRows[i].value
    /\ \E i \in 1..Len(SourceRows) : SourceRows[i].unit = ret.units

\* not x < y, for two numbers
FGe(x, y) == ~isna(x) /\ ~isna(y) /\ ~FLt(x, y)

\* C6: without averaging, a converted value v below the detection limit (300 for gcL,
\* 0.3 for gcMl) is returned as half the limit (150, 0.15) and a value at or above
\* the limit is returned unchanged; the limit itself is not replaced
C6_LodFloor ==
    (GeneCallOk /\ ~ret.mean) =>
        /\ Len(ret.out.rows) = Len(ret.out.converted)
        /\ \A i \in 1..Len(ret.out.rows) :
            LET v == ret.out.converted[i].value
                w == ret.out.rows[i].value
                lod == IF ret.units = "gcL" THEN Rat(300, 1) ELSE Rat(300, 1000)
                half == IF ret.units = "gcL" THEN Rat(150, 1) ELSE Rat(150, 1000)
            IN  /\ FLt(v, lod) => w = half
                /\ FGe(v, lod) => w = v
                /\ (w = half) <=> FLt(v, lod)
                /\ ret.out.rows[i].sampleDate = ret.out.converted[i].sampleDate

\* an unaveraged query with a value exactly at the limit and a value below it
C6_Witness ==
    /\ GeneCallOk /\ ~ret.mean
    /\ \E i, j \in 1..Len(ret.out.rows) :
          /\ ret.out.converted[i].value = (IF ret.units = "gcL" THEN Fl(300) ELSE Rat(3, 10))
          /\ ret.out.rows[i].value = ret.out.converted[i].value
          /\ FLt(ret.out.converted[j].value, ret.out.converted[i].value)
          /\ ret.out.rows[j].value # ret.out.converted[j].value

\* the value the claims give a recorded reading in the target unit: converted, then
\* replaced by half the detection limit when below the limit
LodValue(row, units) ==
    LET v == IF row.unit = units THEN row.value
             ELSE IF units = "gcL" THEN FMul(row.value, Fl(1000))
             ELSE FDiv(row.value, Fl(1000))
    IN  IF units = "gcL"
        THEN (IF FLt(v, Fl(300)) THEN Fl(150) ELSE v)
        ELSE (IF FLt(v, Rat(3, 10)) THEN Rat(15, 100) ELSE v)

RECURSIVE SumOver(_, _, _)
SumOver(I, rows, units) ==
    IF I = {} THEN Fl(0)
    ELSE LET i == CHOOSE j \in I : TRUE
         IN  FAdd(LodValue(rows[i], units), SumOver(I \ {i}, rows, units))

\* the positions in measure_data of the non-blank rows of a sample for the gene
NonBlank(sd, gene, id) ==
    {i \in 1..Len(sd.measure_data) :
        /\ sd.measure_data[i].type = gene
        /\ sd.measure_data[i].sampleID = id
        /\ ~isna(sd.measure_data[i].value)}

\* C8: with averaging, there is exactly one row per sampleID that has a non-blank row
\* for the gene; its value is the arithmetic mean of the converted-and-replaced values
\* of the sample's non-blank rows and its sampleDate that of the first of them; a
\* sample with blanks only has no row, a sample with one non-blank row keeps its value
C8_GroupMean ==
    (GeneCallOk /\ ret.mean) =>
        LET sd == site_data[ret.site]
            ids == {sd.measure_data[i].sampleID : i \in 1..Len(sd.measure_data)}
            present == {id \in ids : NonBlank(sd, ret.gene, id) # {}}
        IN  /\ {ret.out.rows[j].index : j \in 1..Len(ret.out.rows)} = present
            /\ Len(ret.out.rows) = Cardinality(present)
            /\ \A j \in 1..Len(ret.out.rows) :
                LET I == NonBlank(sd, ret.gene, ret.out.rows[j].index)
                IN  /\ FMul(ret.out.rows[j].value, Fl(Cardinality(I)))
                          = SumOver(I, sd.measure_data, ret.units)
                    /\ ret.out.rows[j].sampleDate = sd.measure_data[SetMin(I)].sampleDate
                    /\ Cardinality(I) = 1 =>
                          ret.out.rows[j].value = LodValue(sd.measure_data[SetMin(I)], ret.units)

\* an averaged query over a sample with two non-blank rows of different values and
\* dates, and over a sample whose rows for the gene are all blank
C8_Witness ==
    /\ GeneCallOk /\ ret.mean
    /\ LET sd == site_data[ret.site]
       IN  /\ \E j \in 1..Len(ret.out.rows) :
                LET I == NonBlank(sd, ret.gene, ret.out.rows[j].index)
                IN  /\ Cardinality(I) >= 2
                    /\ sd.measure_data[SetMax(I)].sampleDate # sd.measure_data[SetMin(I)].sampleDate
           /\ \E i \in 1..Len(sd.measure_data) :
                /\ sd.measure_data[i].type = ret.gene
                /\ NonBlank(sd, ret.gene, sd.measure_data[i].sampleID) = {}

-----------------------------------------------------------------------------
(* Claims about the unit argument, the ratio and the standardization.      *)

PipelineOps ==
    {"get_data_by_gene", "get_normalized_data", "get_standardized_data",
     "get_log_standardized_data", "get_spline_model"}

\* C7: with a unit argument other than "gcL" and "gcMl" every stage of the pipeline
\* fails with the invalid-unit error (a ValueError) and returns nothing, whatever the
\* gene and the site's rows; with "gcL" or "gcMl" that error is not raised
C7_InvalidUnits ==
    ret.op \in PipelineOps =>
        /\ ret.units \notin {"gcL", "gcMl"} =>
              /\ ret.out.status = "ValueError"
              /\ ret.op # "get_spline_model" => ret.out.rows = <<>>
        /\ ret.units \in {"gcL", "gcMl"} => ret.out.status # "ValueError"

\* get_spline_model failed on the unit although the site has readings of both genes
C7_Witness ==
    /\ ret.op = "get_spline_model"
    /\ ret.units \notin {"gcL", "gcMl"}
    /\ ret.out.status = "ValueError"
    /\ NonBlank(site_data[ret.site], ret.gene_1, 1) # {}
    /\ NonBlank(site_data[ret.site], ret.gene_2, 1) # {}

Indexes(rows) == {rows[i].index : i \in 1..Len(rows)}

\* the rows of a normalized frame are the ratios of the rows of the two gene frames
\* that share a sampleID
IsRatioOf(rows, data_1, data_2) ==
    /\ Indexes(rows) = Indexes(data_1) \cap Indexes(data_2)
    /\ Len(rows) = Cardinality(Indexes(data_1) \cap Indexes(data_2))
    /\ Len(rows) <= Len(data_1) /\ Len(rows) <= Len(data_2)
    /\ \A i \in 1..Len(rows) :
          \E j \in 1..Len(data_1), l \in 1..Len(data_2) :
              /\ data_1[j].index = rows[i].index
              /\ data_2[l].index = rows[i].index
              /\ FMul(rows[i].value, data_2[l].value) = data_1[j].value
              /\ rows[i].sampleDate = data_1[j].sampleDate

\* C9: get_normalized_data returns exactly one row per sampleID that has a row in
\* both gene series (so at most min of their lengths); its value is the gene_1 value
\* divided by the gene_2 value of that sampleID, its date the gene_1 row's sampleDate
C9_InnerJoinRatio ==
    (ret.op = "get_normalized_data" /\ ret.out.status = "ok") =>
        IsRatioOf(ret.out.rows,
                  get_data_by_gene(site_data[ret.site], ret.gene_1, ret.units, TRUE).rows,
                  get_data_by_gene(site_data[ret.site], ret.gene_2, ret.units, TRUE).rows)

\* a ratio frame that dropped a sample of gene_1 that gene_2 lacks and holds a ratio
\* other than 1
C9_Witness ==
    /\ ret.op = "get_normalized_data" /\ ret.out.status = "ok"
    /\ \E i \in 1..Len(ret.out.rows) : ret.out.rows[i].value \notin {Fl(1), NaN}
    /\ \E id \in 1..MaxSamples :
          /\ NonBlank(site_data[ret.site], ret.gene_1, id) # {}
          /\ NonBlank(site_data[ret.site], ret.gene_2, id) = {}
          /\ id \notin Indexes(ret.out.rows)

\* a series of one point, or of several points of one value
Degenerate(rows) ==
    /\ Len(rows) >= 1
    /\ \A i \in 1..Len(rows) : rows[i].value = rows[1].value

StandardizedOf(ratio) ==
    /\ ret.op = "get_standardized_data"
    /\ ret.units \in {"gcL", "gcMl"}
    /\ ratio.status = "ok"
    /\ Degenerate(ratio.rows)

\* C10 as the claim states it: for a ratio series of a single point or of zero
\* variance get_standardized_data fails and returns no series
C10_AsClaimed ==
    StandardizedOf(get_normalized_data(site_data[ret.site], ret.gene_1, ret.gene_2, ret.units))
        => ret.out.status # "ok"

SameDatesInfinite(rows, ratio) ==
    /\ Len(rows) = Len(ratio)
    /\ \A i \in 1..Len(rows) :
          /\ rows[i].value = PInf
          /\ rows[i].sampleDate = ratio[i].sampleDate

\* C10 amended: for a ratio series of a single point or of zero variance
\* get_standardized_data raises no error; it returns one row per ratio row, the
\* positive ratio divided by the standard deviation 0, which is +infinity
C10_InfiniteNotError ==
    StandardizedOf(get_normalized_data(site_data[ret.site], ret.gene_1, ret.gene_2, ret.units))
        => /\ ret.out.status = "ok"
           /\ SameDatesInfinite(ret.out.rows, ret.out.normalized)

\* a standardized single-point series, and one of two equal points
C10_Witness ==
    /\ ret.op = "get_standardized_data" /\ ret.out.status = "ok"
    /\ Len(ret.out.normalized) = 2
    /\ ret.out.normalized[1].value = ret.out.normalized[2].value
    /\ ret.out.rows[2].value = PInf

-----------------------------------------------------------------------------
(* Claims about AggregateModel.                                            *)

\* the days from first to last, both included, in ascending order
DaysFromTo(first, last) == Frame([i \in 1..(last - first + 1) |-> first + i - 1])

\* C1 as the claim states it: for start_date <= end_date the list get_date_list
\* returns is start_date, start_date + 1, ..., end_date, of length
\* (end_date - start_date) + 1, so that its last entry is end_date
C1_AsClaimed ==
    (/\ ret.op = "get_date_list"
     /\ str_to_datetime(ret.start_date) <= str_to_datetime(ret.end_date)) =>
        /\ ret.out = DaysFromTo(str_to_datetime(ret.start_date), str_to_datetime(ret.end_date))
        /\ Len(ret.out) = str_to_datetime(ret.end_date) - str_to_datetime(ret.start_date) + 1
        /\ ret.out[Len(ret.out)] = str_to_datetime(ret.end_date)

\* the days on which the samples of a site were taken, read from the sample table
ObservedDates(site) ==
    LET rows == SelectSeq(odm.sample, LAMBDA s : s.siteID = site)
    IN  {(IF rows[i].dateTimeEnd = NaT THEN rows[i].dateTime ELSE rows[i].dateTimeEnd).date :
            i \in 1..Len(rows)}

OutOfRange(site, date) ==
    \/ \A d \in ObservedDates(site) : date < d
    \/ \A d \in ObservedDates(site) : date > d

\* the fitted function of the site at a date: a + b * day, day counted from the
\* first date of the fitted series
SplineValue(site, date) ==
    LET model == get_spline_model(site_data[site], ret.gene_1, ret.gene_2, ret.units, scipy[site])
    IN  Fl(scipy[site].a + scipy[site].b * (date - model.start_date))

SiteSplineOk == ret.op = "get_site_spline" /\ ret.out.status = "ok"

\* C3: in the series get_site_spline returns the value of a date is NaN exactly when
\* the date is before the first or after the last day a sample of the site was taken;
\* on those two days and between them it is the value of the fitted spline at the date
C3_MissingOutsideRange ==
    SiteSplineOk =>
        \A i \in 1..Len(ret.out.rows) :
            LET row == ret.out.rows[i]
            IN  /\ isna(row.value) <=> OutOfRange(ret.site, row.sampleDate)
                /\ ~OutOfRange(ret.site, row.sampleDate) =>
                      row.value = SplineValue(ret.site, row.sampleDate)

\* a series with a masked date before the first sample, a masked date after the last
\* one, and values on the days of the first and of the last sample, a day apart or more
C3_Witness ==
    /\ SiteSplineOk
    /\ \E i, j, k, l \in 1..Len(ret.out.rows) :
          /\ \A d \in ObservedDates(ret.site) : ret.out.rows[i].sampleDate < d
          /\ isna(ret.out.rows[i].value)
          /\ \A d \in ObservedDates(ret.site) : ret.out.rows[j].sampleDate <= d
          /\ ret.out.rows[j].sampleDate \in ObservedDates(ret.site)
          /\ ~isna(ret.out.rows[j].value)
          /\ \A d \in ObservedDates(ret.site) : ret.out.rows[k].sampleDate >= d
          /\ ret.out.rows[k].sampleDate \in ObservedDates(ret.site)
          /\ ~isna(ret.out.rows[k].value)
          /\ ret.out.rows[j].sampleDate < ret.out.rows[k].sampleDate
          /\ \A d \in ObservedDates(ret.site) : ret.out.rows[l].sampleDate > d
          /\ isna(ret.out.rows[l].value)

AggregateOk == ret.op = "get_aggregate_model" /\ ret.out.status = "ok"

\* the positions in the list of sites of the sites that are not missing at a date
Present(date) == {i \in 1..Len(ret.sites) : ~OutOfRange(ret.sites[i], date)}

\* the sum of weight * value at the date over the sites at the positions I
RECURSIVE WeightedSum(_, _)
WeightedSum(I, date) ==
    IF I = {} THEN Fl(0)
    ELSE LET i == CHOOSE x \in I : TRUE
         IN  FAdd(FMul(weights[ret.sites[i]], SplineValue(ret.sites[i], date)),
                  WeightedSum(I \ {i}, date))

\* the sum of the weights of the sites at the positions I
RECURSIVE WeightSum(_)
WeightSum(I) ==
    IF I = {} THEN Fl(0)
    ELSE LET i == CHOOSE x \in I : TRUE
         IN  FAdd(weights[ret.sites[i]], WeightSum(I \ {i}))

\* C2: at every date of the grid at which a site is not missing the value of
\* get_aggregate_model is the sum of weight * value over the sites not missing at
\* that date divided by the sum of the weights of those sites; a missing site adds
\* nothing to either sum
C2_WeightedMean ==
    AggregateOk =>
        \A k \in 1..Len(ret.out.rows) :
            LET row == ret.out.rows[k]
            IN  Present(row.sampleDate) # {} =>
                    row.value = FDiv(WeightedSum(Present(row.sampleDate), row.sampleDate),
                                     WeightSum(Present(row.sampleDate)))

\* an aggregate of two sites of positive weights with a date at which one of them is
\* missing and a date at which both have a value
C2_Witness ==
    /\ AggregateOk
    /\ Len(ret.sites) = 2
    /\ \A i \in 1..2 : FLt(Fl(0), weights[ret.sites[i]])
    /\ \E k, l \in 1..Len(ret.out.rows) :
          /\ Cardinality(Present(ret.out.rows[k].sampleDate)) = 1
          /\ ~isna(ret.out.rows[k].value)
          /\ Cardinality(Present(ret.out.rows[l].sampleDate)) = 2
          /\ ~isna(ret.out.rows[l].value)

-----------------------------------------------------------------------------
(* The ODM object.  In the ODM specification odm holds the eight tables,   *)
(* each as the sequence of its rows, with the columns and the index of     *)
(* every table: odm.columns[attr] lists the column labels in order and     *)
(* odm.index[attr] is the label of the column set as the index, RangeIndex *)
(* for a table as it was read.                                             *)

\* OdmTables.attributes()
attributes ==
    <<"site", "reporter", "lab", "instrument", "assay_method", "sample", "ww_measure",
      "site_measure">>

RangeIndex == "RangeIndex"

\* an argument left out (None)
None == <<>>

\* line 220: the date of dateTimeEnd, of dateTime where dateTimeEnd is null
sampleDate(r) == (IF r.dateTimeEnd = NaT THEN r.dateTime ELSE r.dateTimeEnd).date

\* df[[...]] and df[...] raise KeyError for a label that is not a column
HasColumns(data, attr, labels) == labels \subseteq Range(data.columns[attr])

\* lines 223-231 with the upper bound left out of the test
keep_from(r, start_date, end_date) ==
    start_date # None => sampleDate(r) >= str_to_datetime(start_date)

\* lines 223-231: the sample meets the bounds that are given
keep(r, start_date, end_date) ==
    /\ start_date # None => sampleDate(r) >= str_to_datetime(start_date)
    /\ end_date # None => sampleDate(r) <= str_to_datetime(end_date)

\* lines 235-237: the rows of a table whose sampleID is one of ids
isin(rows, ids) == SelectSeq(rows, LAMBDA r : r.sampleID \in ids)

\* ODM.filter_dates: the outcome and the tables it leaves
filter_dates(data, start_date, end_date) ==
    IF ~HasColumns(data, "sample", {"sampleID", "dateTimeEnd", "dateTime"})
    THEN [status |-> "KeyError", data |-> data]
    ELSE LET samples == SelectSeq(data.sample, LAMBDA r : keep(r, start_date, end_date))
             ids == {samples[i].sampleID : i \in 1..Len(samples)}
             filtered_1 == [data EXCEPT !.sample = isin(@, ids)]
             filtered_2 == [filtered_1 EXCEPT !.ww_measure = isin(@, ids)]
             filtered_3 == [filtered_2 EXCEPT !.site_measure = isin(@, ids)]
         IN  IF ~HasColumns(data, "ww_measure", {"sampleID"})
             THEN [status |-> "KeyError", data |-> filtered_1]
             ELSE IF ~HasColumns(data, "site_measure", {"sampleID"})
             THEN [status |-> "KeyError", data |-> filtered_2]
             ELSE [status |-> "ok", data |-> filtered_3]

\* ODM.export_csvs: to_csv writes the tables out and leaves them as they are
export_csvs(data) == [status |-> "ok", data |-> data]

\* line 199, df.set_index(df.columns[0], inplace=True): the first column becomes the
\* index of the table itself; the former index is dropped
set_index(data, attr) ==
    LET labels == data.columns[attr]
        left == Range(labels)
    IN  [data EXCEPT !.index[attr] = labels[1],
                     !.columns[attr] = Tail(labels),
                     ![attr] = Frame([i \in 1..Len(data[attr]) |->
                                        [c \in left |-> data[attr][i][c]]])]

\* the loop of lines 197-200 from the i-th table on; df.columns[0] of a table
\* without columns is an IndexError
RECURSIVE export_loop(_, _)
export_loop(data, i) ==
    IF i > Len(attributes)
    THEN [status |-> "ok", data |-> data]
    ELSE IF data.columns[attributes[i]] = <<>>
    THEN [status |-> "IndexError", data |-> data]
    ELSE export_loop(set_index(data, attributes[i]), i + 1)

\* ODM.export_excel
export_excel(data) == export_loop(data, 1)

FilterDates(start_date, end_date) ==
    /\ odm' = filter_dates(odm, start_date, end_date).data
    /\ ret' = [op |-> "filter_dates", start_date |-> start_date, end_date |-> end_date,
               before |-> odm,
               out |-> [status |-> filter_dates(odm, start_date, end_date).status]]
    /\ UNCHANGED <<site_data, weights, scipy>>

ExportCsvs ==
    /\ odm' = export_csvs(odm).data
    /\ ret' = [op |-> "export_csvs", before |-> odm,
               out |-> [status |-> export_csvs(odm).status]]
    /\ UNCHANGED <<site_data, weights, scipy>>

ExportExcel ==
    /\ odm' = export_excel(odm).data
    /\ ret' = [op |-> "export_excel", before |-> odm,
               out |-> [status |-> export_excel(odm).status]]
    /\ UNCHANGED <<site_data, weights, scipy>>

-----------------------------------------------------------------------------
(* The ODM specification: a sample table of three samples with distinct    *)
(* sampleIDs (the key of the table): a grab sample and a composite sample  *)
(* of site A taken on any days of 0..MaxDay and a composite sample of site *)
(* B that starts on day 0 and ends on day MaxDay; measurements of every    *)
(* sample and of a sample the sample table does not list.  The tables are  *)
(* filtered and exported in any order.                                     *)

OdmColumns ==
    [site |-> <<"siteID", "name">>, reporter |-> <<"reporterID", "name">>,
     lab |-> <<"labID", "name">>, instrument |-> <<"instrumentID", "name">>,
     assay_method |-> <<"assayMethodID", "name">>,
     sample |-> <<"sampleID", "siteID", "dateTime", "dateTimeEnd">>,
     ww_measure |-> <<"uWwMeasureID", "sampleID", "type", "unit", "value">>,
     site_measure |-> <<"uSiteMeasureID", "sampleID", "value">>]

\* the tables with a grab sample on day a and a composite sample that ends on day b
OdmTable(a, b) ==
    [site |-> <<[siteID |-> "A", name |-> "a"], [siteID |-> "B", name |-> "b"]>>,
     reporter |-> <<[reporterID |-> "r", name |-> "r"]>>,
     lab |-> <<[labID |-> "l", name |-> "l"]>>,
     instrument |-> <<[instrumentID |-> "i", name |-> "i"]>>,
     assay_method |-> <<[assayMethodID |-> "m", name |-> "m"]>>,
     sample |-> <<SampleRow(1, "A", Timestamp(a, 23), NaT),
                  SampleRow(2, "A", NaT, Timestamp(b, 0)),
                  SampleRow(3, "B", Timestamp(0, 9), Timestamp(MaxDay, 9))>>,
     ww_measure |-> <<[uWwMeasureID |-> "w1", sampleID |-> 1, type |-> "covN1", unit |-> "gcL", value |-> Fl(300)],
                      [uWwMeasureID |-> "w2", sampleID |-> 2, type |-> "covN1", unit |-> "gcL", value |-> Fl(600)],
                      [uWwMeasureID |-> "w3", sampleID |-> 4, type |-> "covN1", unit |-> "gcL", value |-> Fl(300)],
                      [uWwMeasureID |-> "w4", sampleID |-> 3, type |-> "nPMMoV", unit |-> "gcL", value |-> Fl(300)]>>,
     site_measure |-> <<[uSiteMeasureID |-> "s1", sampleID |-> 2, value |-> Fl(1)],
                        [uSiteMeasureID |-> "s2", sampleID |-> 3, value |-> Fl(1)],
                        [uSiteMeasureID |-> "s3", sampleID |-> 4, value |-> Fl(1)]>>,
     columns |-> OdmColumns,
     index |-> [attr \in Range(attributes) |-> RangeIndex]]

OdmTables == {OdmTable(a, b) : a \in 0..MaxDay, b \in 0..MaxDay}

\* the bounds of a filter: a date of the first MaxDay + 1 days, or none
DateArgs == DateStringsUpTo(MaxDay) \cup {None}

InitOdm ==
    /\ odm \in OdmTables
    /\ site_data = [s \in Sites |-> SiteData(odm, s)]
    /\ weights = NoWeights
    /\ scipy = NoScipy
    /\ ret = NoCall

NextOdm ==
    \/ \E start_date \in DateArgs, end_date \in DateArgs : FilterDates(start_date, end_date)
    \/ ExportCsvs
    \/ ExportExcel

SpecOdm == InitOdm /\ [][NextOdm]_vars

-----------------------------------------------------------------------------
(* Claims about ODM.filter_dates.                                          *)

\* the rows of a table that the filter with the given bounds has to retain
InBounds(r, start_date, end_date) ==
    /\ start_date # None => str_to_datetime(start_date) <= sampleDate(r)
    /\ end_date # None => sampleDate(r) <= str_to_datetime(end_date)

RetainedIds ==
    {ret.before.sample[i].sampleID :
        i \in {j \in 1..Len(ret.before.sample) :
                  InBounds(ret.before.sample[j], ret.start_date, ret.end_date)}}

FilterOk == ret.op = "filter_dates" /\ ret.out.status = "ok"

\* C11: after filter_dates the sample table holds exactly the samples it held whose
\* sampleDate is on or after start_date and on or before end_date, for each bound
\* given; ww_measure and site_measure hold exactly the rows they held whose sampleID
\* is a retained sample; the other five tables, the columns and the indexes are as
\* before
C11_FilterDates ==
    FilterOk =>
        /\ odm.sample = SelectSeq(ret.before.sample,
                                  LAMBDA r : InBounds(r, ret.start_date, ret.end_date))
        /\ odm.ww_measure = SelectSeq(ret.before.ww_measure,
                                      LAMBDA r : r.sampleID \in RetainedIds)
        /\ odm.site_measure = SelectSeq(ret.before.site_measure,
                                        LAMBDA r : r.sampleID \in RetainedIds)
        /\ \A attr \in {"site", "reporter", "lab", "instrument", "assay_method",
                        "columns", "index"} : odm[attr] = ret.before[attr]

\* a filter with both bounds that kept a sample dated on start_date and one dated on
\* end_date, and dropped a sample and the measurements of it
C11_Witness ==
    /\ FilterOk
    /\ ret.start_date # None /\ ret.end_date # None
    /\ str_to_datetime(ret.start_date) < str_to_datetime(ret.end_date)
    /\ \E i, j \in 1..Len(odm.sample) :
          /\ sampleDate(odm.sample[i]) = str_to_datetime(ret.start_date)
          /\ sampleDate(odm.sample[j]) = str_to_datetime(ret.end_date)
    /\ Len(odm.sample) < Len(ret.before.sample)
    /\ Len(odm.ww_measure) < Len(ret.before.ww_measure) - 1
    /\ Len(odm.site_measure) < Len(ret.before.site_measure)

-----------------------------------------------------------------------------
(* The query specification: any sequence of the seven queries on one       *)
(* AggregateModel.  Site A has a sample on day 0, whose two readings are   *)
(* negative, zero, below or above the detection limit, a sample on day 1,  *)
(* and may have a third sample on day 3 whose only reading is blank; site  *)
(* B has a sample on day 1 and one on day 2.  The fits succeed.            *)

QueryWeights == [A |-> Fl(2), B |-> Fl(1)]

\* the readings of the first sample of site A
QueryValues == {Fl(-5), Fl(0), Fl(600)} \X {Fl(0), Rat(3, 10)}

QueryTable(v, blank) ==
    [sample |-> AggSamples("A", 1, 0, 1) \o AggSamples("B", 3, 1, 2)
                \o (IF blank THEN <<SampleRow(5, "A", Timestamp(3, 9), NaT)>> ELSE <<>>),
     ww_measure |-> <<MeasureRow(1, "covN1", "gcL", v[1]), MeasureRow(1, "nPMMoV", "gcMl", v[2]),
                      MeasureRow(2, "covN1", "gcL", Fl(600)), MeasureRow(2, "nPMMoV", "gcL", Fl(300))>>
                    \o AggMeasures(3)
                    \o (IF blank THEN <<MeasureRow(5, "covN1", "gcL", NaN)>> ELSE <<>>)]

QueryTables == {QueryTable(v, blank) : v \in QueryValues, blank \in BOOLEAN}

InitQuery ==
    /\ odm \in QueryTables
    /\ site_data = [s \in Sites |-> SiteData(odm, s)]
    /\ weights = QueryWeights
    /\ scipy = FitsOk
    /\ ret = NoCall

NextQuery ==
    \/ \E gene \in Genes, units \in UnitArgs, mean \in BOOLEAN :
          GetDataByGene("A", gene, units, mean)
    \/ \E pair \in GenePairs, units \in UnitArgs :
          \/ GetNormalizedData("A", pair[1], pair[2], units)
          \/ GetStandardizedData("A", pair[1], pair[2], units)
          \/ GetLogStandardizedData("A", pair[1], pair[2], units)
          \/ GetSplineModel("A", pair[1], pair[2], units)
    \/ \E end_date \in DateStringsUpTo(MaxDay), units \in {"gcL", "gcmL"} :
          \/ \E site \in Sites :
                GetSiteSpline(site, "covN1", "nPMMoV", <<2021, 1, 1>>, end_date, units)
          \/ \E sites \in SiteLists :
                GetAggregateModel(sites, "covN1", "nPMMoV", <<2021, 1, 1>>, end_date, units)

SpecQuery == InitQuery /\ [][NextQuery]_vars

-----------------------------------------------------------------------------
(* Claims about the queries.                                               *)

\* what the call r returns when it is the first call made on SiteData objects
\* constructed from the tables
FirstCall(tables, r) ==
    LET fresh == [s \in Sites |-> SiteData(tables, s)]
    IN  CASE r.op = "get_data_by_gene" ->
                get_data_by_gene(fresh[r.site], r.gene, r.units, r.mean)
          [] r.op = "get_normalized_data" ->
                get_normalized_data(fresh[r.site], r.gene_1, r.gene_2, r.units)
          [] r.op = "get_standardized_data" ->
                get_standardized_data(fresh[r.site], r.gene_1, r.gene_2, r.units)
          [] r.op = "get_log_standardized_data" ->
                get_log_standardized_data(fresh[r.site], r.gene_1, r.gene_2, r.units)
          [] r.op = "get_spline_model" ->
                get_spline_model(fresh[r.site], r.gene_1, r.gene_2, r.units, scipy[r.site])
          [] r.op = "get_site_spline" ->
                get_site_spline(fresh, scipy, r.site, r.gene_1, r.gene_2,
                                r.start_date, r.end_date, r.units)
          [] r.op = "get_aggregate_model" ->
                get_aggregate_model(fresh, scipy, weights, r.sites, r.gene_1, r.gene_2,
                                    r.start_date, r.end_date, r.units)

\* C12: a query, whether it returns or raises, leaves the ODM tables and the
\* sample_data and measure_data of every SiteData as they were, and the call returns
\* what the same call returns when made first on freshly constructed SiteData objects
C12_QueriesReadOnly ==
    [][/\ odm' = odm
       /\ site_data' = site_data
       /\ ret'.out = FirstCall(odm, ret')]_vars

\* an aggregate returned for sites of which one has a reading below the detection
\* limit, which the queries replace in what they return, the SiteData objects
\* holding the rows of the tables
C12_Witness ==
    /\ ret.op = "get_aggregate_model" /\ ret.out.status = "ok"
    /\ \E i \in 1..Len(site_data["A"].measure_data) :
          /\ site_data["A"].measure_data[i].type = "covN1"
          /\ FLt(site_data["A"].measure_data[i].value, Fl(300))
    /\ site_data = [s \in Sites |-> SiteData(odm, s)]

-----------------------------------------------------------------------------
(* The knot specification: the two samples of site A are taken on a day    *)
(* first and on a day 0 to MaxDuration days later, those of site B on the  *)
(* days 0 and 1; every sample has readings of both genes; the fit of A may *)
(* fail.  get_spline_model is called for any site, gene pair and unit.     *)

KnotTables ==
    {[sample |-> AggSamples("A", 1, first, first + duration) \o AggSamples("B", 3, 0, 1),
      ww_measure |-> AggMeasures(1) \o AggMeasures(3)] :
        first \in 0..1, duration \in 0..MaxDuration}

InitKnots ==
    /\ odm \in KnotTables
    /\ site_data = [s \in Sites |-> SiteData(odm, s)]
    /\ weights = NoWeights
    /\ scipy \in AggFits
    /\ ret = NoCall

NextKnots ==
    \E site \in Sites, pair \in GenePairs, units \in UnitArgs :
        GetSplineModel(site, pair[1], pair[2], units)

SpecKnots == InitKnots /\ [][NextKnots]_vars

\* the days of the samples of the site that have a reading of both genes
SeriesDates(sd, gene_1, gene_2) ==
    {sd.sample_data[i].sampleDate :
        i \in {j \in 1..Len(sd.sample_data) :
                  /\ NonBlank(sd, gene_1, sd.sample_data[j].sampleID) # {}
                  /\ NonBlank(sd, gene_2, sd.sample_data[j].sampleID) # {}}}

\* the time in days between the first and the last day of the series
Duration(sd, gene_1, gene_2) ==
    SetMax(SeriesDates(sd, gene_1, gene_2)) - SetMin(SeriesDates(sd, gene_1, gene_2))

SplineCall == ret.op = "get_spline_model" /\ ret.units \in {"gcL", "gcMl"}

\* C13: the knots get_spline_model hands to the fit are the multiples of 10 from 10
\* on that are less than the duration D of the series, in ascending order; there is
\* no knot exactly when D <= 10; and the call fails only when the fit itself
\* fails, whatever the number of knots
C13_Knots ==
    SplineCall =>
        LET D == Duration(site_data[ret.site], ret.gene_1, ret.gene_2)
        IN  /\ ret.out.status = "ok" <=> scipy[ret.site].ok
            /\ ret.out.status = "ok" =>
                  /\ ret.out.knots = SortedSeq({k \in 10..(D - 1) : k % 10 = 0})
                  /\ ret.out.knots = <<>> <=> D <= 10

\* a model of a series of 20 days, which has the one knot 10
C13_Witness ==
    /\ SplineCall /\ ret.out.status = "ok"
    /\ Duration(site_data[ret.site], ret.gene_1, ret.gene_2) = 20
    /\ ret.out.knots = <<10>>

-----------------------------------------------------------------------------
(* Claims about the detection-limit floor and the ratio.                   *)

\* half the detection limit in the target unit
HalfLod(units) == IF units = "gcL" THEN Fl(150) ELSE Rat(15, 100)

\* C14: for both supported units, whatever the readings (negative and zero ones
\* included), every value get_data_by_gene returns, averaged or not, is at least half
\* the detection limit (150 in gcL, 0.15 in gcMl); hence no gene_2 value that
\* get_normalized_data divides by is zero, and every ratio it returns, and every
\* standardized value handed to the log transform, is greater than zero
C14_FlooredPositive ==
    /\ (ret.op = "get_data_by_gene" /\ ret.out.status = "ok") =>
          \A i \in 1..Len(ret.out.rows) : FGe(ret.out.rows[i].value, HalfLod(ret.units))
    /\ (ret.op = "get_normalized_data" /\ ret.out.status = "ok") =>
          /\ \A i \in 1..Len(ret.out.rows) : FLt(Fl(0), ret.out.rows[i].value)
          /\ LET data_2 == get_data_by_gene(site_data[ret.site], ret.gene_2, ret.units, TRUE).rows
             IN  \A i \in 1..Len(data_2) : ~IsZero(data_2[i].value)
    /\ (ret.op = "get_standardized_data" /\ ret.out.status = "ok") =>
          \A i \in 1..Len(ret.out.rows) : FLt(Fl(0), ret.out.rows[i].value)

\* the ratios of a site with a negative reading of gene_1 and a zero reading of gene_2
C14_Witness ==
    /\ ret.op = "get_normalized_data" /\ ret.out.status = "ok"
    /\ Len(ret.out.rows) = 2
    /\ \E i, j \in 1..Len(site_data[ret.site].measure_data) :
          /\ site_data[ret.site].measure_data[i].type = ret.gene_1
          /\ FLt(site_data[ret.site].measure_data[i].value, Fl(0))
          /\ site_data[ret.site].measure_data[j].type = ret.gene_2
          /\ IsZero(site_data[ret.site].measure_data[j].value)

-----------------------------------------------------------------------------
(* Claims about extrapolation.                                             *)

\* C15 as the claim states it: every date of the series get_site_spline returns whose
\* value is not masked lies between the start_date and the end_date of the series
\* the spline was fitted to, so no value is an extrapolation of the spline
C15_AsClaimed ==
    SiteSplineOk =>
        LET model == get_spline_model(site_data[ret.site], ret.gene_1, ret.gene_2,
                                      ret.units, scipy[ret.site])
        IN  \A i \in 1..Len(ret.out.rows) :
                ~isna(ret.out.rows[i].value) =>
                    /\ model.start_date <= ret.out.rows[i].sampleDate
                    /\ ret.out.rows[i].sampleDate <= model.end_date

-----------------------------------------------------------------------------
(* Claims about the exports.                                               *)

\* C16 as the claim states it: after export_csvs or export_excel each of the eight
\* tables has the columns, the index and the rows it had before the call
C16_AsClaimed ==
    ret.op \in {"export_csvs", "export_excel"} =>
        /\ odm.columns = ret.before.columns
        /\ odm.index = ret.before.index
        /\ \A attr \in Range(attributes) : odm[attr] = ret.before[attr]

====
